---- MODULE Spec2Model ----
(***************************************************************************)
(* absl::DenseSet<T, C, A>: a sorted, duplicate-free set stored in a       *)
(* std::vector<T, A> (dense_set.h, carried in dense_set_benchmark.cc).     *)
(*                                                                         *)
(* A set object is a record [elems, comp_, alloc]: the vector base's       *)
(* elements, the comparator member comp_ and the vector's allocator.       *)
(* Iterators are offsets from begin(): 0 is begin(), Len(elems) is end(),  *)
(* and the element under iterator p is elems[p + 1].                       *)
(***************************************************************************)
EXTENDS Integers, Sequences, FiniteSets

\* ------------------------------------------------------------------ bounds
MaxVal == 3
MaxLen == 3
MaxInput == 2
MaxComp == 1
MaxAlloc == 1
MaxOrder == 3

Values == 1..MaxVal
Comparators == 0..MaxComp
Allocators == 0..MaxAlloc

\* The sequences over S of length at most n.
RECURSIVE SeqsUpTo(_, _)
SeqsUpTo(S, n) ==
  IF n = 0 THEN {<<>>}
  ELSE LET shorter == SeqsUpTo(S, n - 1)
       IN shorter \cup {Append(q, x) : q \in {r \in shorter : Len(r) = n - 1}, x \in S}

Inputs == SeqsUpTo(Values, MaxInput)

\* ------------------------------------------------- comparator and allocator
\* C(): the default-constructed comparator (test_compare's data_ = 0).
DefaultComp == 0
\* allocator_type(): the default-constructed allocator (test_alloc's data_ = 0).
DefaultAlloc == 0

\* comp_(x, y) for a comparator object c. A comparator is a value of the
\* caller's type C; it carries state (data_) and its ordering may depend on
\* that state: the even ones order ascending, the odd ones descending.
Compare(c, x, y) == IF c % 2 = 0 THEN x < y ELSE y < x

\* ------------------------------------------------------- std::vector base
\* Base::insert(pos, value): value goes before pos; returns pos.
VecInsert(e, p, v) == SubSeq(e, 1, p) \o <<v>> \o SubSeq(e, p + 1, Len(e))

\* Base::erase(first, last): removes [first, last); returns first.
VecEraseRange(e, first, last) == SubSeq(e, 1, first) \o SubSeq(e, last + 1, Len(e))

\* Base::erase(pos).
VecErase(e, p) == VecEraseRange(e, p, p + 1)

\* ------------------------------------------------------ <algorithm> calls
\* std::lower_bound(first, last, key, comp): the halving loop of the library.
RECURSIVE LowerBoundLoop(_, _, _, _, _)
LowerBoundLoop(e, first, len, key, c) ==
  IF len <= 0 THEN first
  ELSE LET half == len \div 2
           mid == first + half
       IN IF Compare(c, e[mid + 1], key)
          THEN LowerBoundLoop(e, mid + 1, len - half - 1, key, c)
          ELSE LowerBoundLoop(e, first, half, key, c)

std_lower_bound(e, first, last, key, c) == LowerBoundLoop(e, first, last - first, key, c)

\* std::upper_bound(first, last, key, comp).
RECURSIVE UpperBoundLoop(_, _, _, _, _)
UpperBoundLoop(e, first, len, key, c) ==
  IF len <= 0 THEN first
  ELSE LET half == len \div 2
           mid == first + half
       IN IF Compare(c, key, e[mid + 1])
          THEN UpperBoundLoop(e, first, half, key, c)
          ELSE UpperBoundLoop(e, mid + 1, len - half - 1, key, c)

std_upper_bound(e, first, last, key, c) == UpperBoundLoop(e, first, last - first, key, c)

\* std::binary_search(first, last, key, comp).
std_binary_search(e, first, last, key, c) ==
  LET pos == std_lower_bound(e, first, last, key, c)
  IN pos /= last /\ ~Compare(c, key, e[pos + 1])

\* ---------------------------------------------------------------- lookup
get_allocator(d) == d.alloc

key_comp(d) == d.comp_

begin(d) == 0

end(d) == Len(d.elems)

size(d) == Len(d.elems)

empty(d) == Len(d.elems) = 0

lower_bound(d, key) == std_lower_bound(d.elems, 0, end(d), key, d.comp_)

upper_bound(d, key) == std_upper_bound(d.elems, 0, end(d), key, d.comp_)

equal_range(d, key) == [first |-> lower_bound(d, key), second |-> upper_bound(d, key)]

contains(d, key) == std_binary_search(d.elems, 0, end(d), key, d.comp_)

count(d, key) == IF contains(d, key) THEN 1 ELSE 0

\* find with the comparator's arguments exchanged in the equivalence test.
find_Exchanged(d, key) ==
  LET pos == lower_bound(d, key)
  IN IF pos = end(d) \/ Compare(d.comp_, d.elems[pos + 1], key) THEN end(d) ELSE pos

find(d, key) ==
  LET pos == lower_bound(d, key)
  IN IF pos = end(d) \/ Compare(d.comp_, key, d.elems[pos + 1]) THEN end(d) ELSE pos

\* -------------------------------------------------------------- mutation
\* insert that appends a new value instead of placing it at its lower bound.
insert_AtEnd(d, value) ==
  LET pos == lower_bound(d, value)
  IN IF pos = end(d) \/ Compare(d.comp_, value, d.elems[pos + 1])
     THEN [set |-> [d EXCEPT !.elems = VecInsert(d.elems, end(d), value)],
           first |-> end(d), second |-> TRUE]
     ELSE [set |-> d, first |-> pos, second |-> FALSE]

\* insert(const value_type&) and insert(value_type&&): the same steps.
insert(d, value) ==
  LET pos == lower_bound(d, value)
  IN IF pos = end(d) \/ Compare(d.comp_, value, d.elems[pos + 1])
     THEN [set |-> [d EXCEPT !.elems = VecInsert(d.elems, pos, value)],
           first |-> pos, second |-> TRUE]
     ELSE [set |-> d, first |-> pos, second |-> FALSE]

\* insert(const_iterator pos, value): both overloads, the same steps.
insert_hint(d, hint, value) ==
  IF empty(d)
  THEN [set |-> [d EXCEPT !.elems = VecInsert(d.elems, 0, value)], pos |-> 0]
  ELSE IF hint = end(d)
  THEN IF Compare(d.comp_, d.elems[Len(d.elems)], value)
       THEN [set |-> [d EXCEPT !.elems = VecInsert(d.elems, end(d), value)], pos |-> end(d)]
       ELSE LET r == insert(d, value) IN [set |-> r.set, pos |-> r.first]
  ELSE LET pos == IF Compare(d.comp_, value, d.elems[hint + 1])
                  THEN std_lower_bound(d.elems, 0, hint, value, d.comp_)
                  ELSE std_lower_bound(d.elems, hint, end(d), value, d.comp_)
       IN IF pos = end(d) \/ Compare(d.comp_, value, d.elems[pos + 1])
          THEN [set |-> [d EXCEPT !.elems = VecInsert(d.elems, pos, value)], pos |-> pos]
          ELSE [set |-> d, pos |-> pos]

\* insert(InputIt first, InputIt last): reserve, then insert(*first) in turn.
RECURSIVE insert_range(_, _)
insert_range(d, input) ==
  IF input = <<>> THEN d
  ELSE insert_range(insert(d, Head(input)).set, Tail(input))

\* insert(std::initializer_list<value_type>).
insert_init(d, init) == insert_range(d, init)

\* emplace(args...): builds the value and forwards to insert.
emplace(d, value) == insert(d, value)

\* erase(pos) returning the iterator after the element that followed.
erase_pos_Next(d, pos) == [set |-> [d EXCEPT !.elems = VecErase(d.elems, pos)], pos |-> pos + 1]

\* erase(const_iterator pos).
erase_pos(d, pos) == [set |-> [d EXCEPT !.elems = VecErase(d.elems, pos)], pos |-> pos]

\* erase(first, last) taking last as part of the range.
erase_range_Closed(d, first, last) ==
  [set |-> [d EXCEPT !.elems = VecEraseRange(d.elems, first, last + 1)], pos |-> first]

\* erase(const_iterator first, const_iterator last).
erase_range(d, first, last) ==
  [set |-> [d EXCEPT !.elems = VecEraseRange(d.elems, first, last)], pos |-> first]

\* erase(key) that reports one removed element whether or not it found the key.
erase_key_Reports1(d, key) ==
  LET pos == lower_bound(d, key)
  IN IF pos = end(d) \/ Compare(d.comp_, key, d.elems[pos + 1])
     THEN [set |-> d, n |-> 1]
     ELSE [set |-> [d EXCEPT !.elems = VecErase(d.elems, pos)], n |-> 1]

\* erase(const key_type&).
erase_key(d, key) ==
  LET pos == lower_bound(d, key)
  IN IF pos = end(d) \/ Compare(d.comp_, key, d.elems[pos + 1])
     THEN [set |-> d, n |-> 0]
     ELSE [set |-> [d EXCEPT !.elems = VecErase(d.elems, pos)], n |-> 1]

\* clear() that also resets the comparator.
clear_Reset(d) == [elems |-> <<>>, comp_ |-> DefaultComp, alloc |-> d.alloc]

\* clear().
clear(d) == [d EXCEPT !.elems = <<>>]

\* ----------------------------------------------------------- construction
\* DenseSet() = default, with the member initialiser C comp_{C()}.
CtorDefault == [elems |-> <<>>, comp_ |-> DefaultComp, alloc |-> DefaultAlloc]

\* An allocator-only constructor that drops its argument.
CtorAlloc_Dropped(al) == [elems |-> <<>>, comp_ |-> DefaultComp, alloc |-> DefaultAlloc]

\* explicit DenseSet(const allocator_type&).
CtorAlloc(al) == [elems |-> <<>>, comp_ |-> DefaultComp, alloc |-> al]

\* explicit DenseSet(const C&, const allocator_type& = allocator_type()).
CtorComp(c, al) == [elems |-> <<>>, comp_ |-> c, alloc |-> al]

\* DenseSet(InputIt, InputIt, const C& = C(), const allocator_type& = ...) and
\* DenseSet(std::initializer_list&&, const C& = C(), const allocator_type& = ...).
CtorRange(input, c, al) == insert_range(CtorComp(c, al), input)

\* DenseSet(InputIt, InputIt, const allocator_type&) and
\* DenseSet(std::initializer_list, const allocator_type&).
CtorRangeAlloc(input, al) == CtorRange(input, DefaultComp, al)

\* DenseSet(const DenseSet&) = default: the vector base and comp_ are copied
\* member by member; the vector's copy takes the source's allocator.
CtorCopy(other) == [elems |-> other.elems, comp_ |-> other.comp_, alloc |-> other.alloc]

\* DenseSet(const DenseSet&, const allocator_type&).
CtorCopyAlloc(other, al) == [elems |-> other.elems, comp_ |-> other.comp_, alloc |-> al]

\* DenseSet(DenseSet&& other, const allocator_type& alloc): the vector base
\* takes other's elements, then comp_ (initialised to C()) is swapped with
\* other.comp_. When alloc equals other's allocator the buffer is taken and
\* other is left empty; when it differs the elements are moved one by one and
\* the library decides whether other is cleared (keeps: other still holds its
\* moved-from elements).
CtorMoveAlloc(other, al, keeps) ==
  [set |-> [elems |-> other.elems, comp_ |-> other.comp_, alloc |-> al],
   other |-> [elems |-> IF keeps /\ al /= other.alloc THEN other.elems ELSE <<>>,
              comp_ |-> DefaultComp,
              alloc |-> other.alloc]]

\* A move constructor that takes the source's allocator along.
CtorMove_TakesAlloc(other, keeps) ==
  [set |-> [elems |-> other.elems, comp_ |-> DefaultComp, alloc |-> other.alloc],
   other |-> [elems |-> <<>>, comp_ |-> other.comp_, alloc |-> other.alloc]]

\* DenseSet(DenseSet&& other): delegates to the constructor above with
\* allocator_type(), then swaps comp_ and other.comp_ once more.
CtorMove(other, keeps) ==
  LET r == CtorMoveAlloc(other, DefaultAlloc, keeps)
  IN [set |-> [r.set EXCEPT !.comp_ = r.other.comp_],
      other |-> [r.other EXCEPT !.comp_ = r.set.comp_]]

\* Copy assignment that copies the elements and keeps its own comparator.
CopyAssign_KeepsComp(d, other) == [elems |-> other.elems, comp_ |-> d.comp_, alloc |-> d.alloc]

\* operator=(const DenseSet&) = default: the vector and comp_ are copied; the
\* allocator does not propagate on copy assignment.
CopyAssign(d, other) == [elems |-> other.elems, comp_ |-> other.comp_, alloc |-> d.alloc]

\* operator=(DenseSet&&) = default: the vector is move-assigned (the allocator
\* propagates, other is left empty) and comp_ is move-assigned, which for a
\* comparator without a move constructor of its own is a copy.
MoveAssign(d, other) ==
  [set |-> [elems |-> other.elems, comp_ |-> other.comp_, alloc |-> other.alloc],
   other |-> [other EXCEPT !.elems = <<>>]]

\* swap(DenseSet& other): the vectors are swapped (the allocators stay, they do
\* not propagate on swap) and the comparators are swapped. This is what the
\* member's two statements are written to do; as written, Base::swap(*this,
\* other) passes two arguments to the vector's one-argument member, so a
\* program that calls the member does not compile.
swap(d, other) ==
  [set |-> [elems |-> other.elems, comp_ |-> other.comp_, alloc |-> d.alloc],
   other |-> [elems |-> d.elems, comp_ |-> d.comp_, alloc |-> other.alloc]]

\* friend swap(DenseSet& lhs, DenseSet& rhs): Base::swap only.
friend_swap(lhs, rhs) ==
  [lhs |-> [lhs EXCEPT !.elems = rhs.elems],
   rhs |-> [rhs EXCEPT !.elems = lhs.elems]]

\* swap(mySet1, mySet3) as the call resolves: the friend's template parameters
\* cannot be deduced, so std::swap runs: T tmp(std::move(lhs));
\* lhs = std::move(rhs); rhs = std::move(tmp).
std_swap(lhs, rhs, keeps) ==
  LET c == CtorMove(lhs, keeps)
      a1 == MoveAssign(c.other, rhs)
      a2 == MoveAssign(a1.other, c.set)
  IN [lhs |-> a1.set, rhs |-> a2.set]

\* ---------------------------------------------------- relational operators
\* operator== that also compares the two comparators.
Equal_WithComp(lhs, rhs) ==
  /\ lhs.comp_ = rhs.comp_
  /\ Len(lhs.elems) = Len(rhs.elems)
  /\ \A k \in 1..Len(lhs.elems) : lhs.elems[k] = rhs.elems[k]

\* operator==: absl::equal over the two element ranges.
Equal(lhs, rhs) ==
  /\ Len(lhs.elems) = Len(rhs.elems)
  /\ \A k \in 1..Len(lhs.elems) : lhs.elems[k] = rhs.elems[k]

\* A lexicographic comparison in which a proper prefix is not less.
RECURSIVE LexLess_NoPrefix(_, _)
LexLess_NoPrefix(x, y) ==
  IF y = <<>> \/ x = <<>> THEN FALSE
  ELSE IF Head(x) < Head(y) THEN TRUE
  ELSE IF Head(y) < Head(x) THEN FALSE
  ELSE LexLess_NoPrefix(Tail(x), Tail(y))

\* operator<: std::lexicographical_compare with operator< of the elements.
RECURSIVE LexLess(_, _)
LexLess(x, y) ==
  IF y = <<>> THEN FALSE
  ELSE IF x = <<>> THEN TRUE
  ELSE IF Head(x) < Head(y) THEN TRUE
  ELSE IF Head(y) < Head(x) THEN FALSE
  ELSE LexLess(Tail(x), Tail(y))

Less(lhs, rhs) == LexLess(lhs.elems, rhs.elems)

\* operator!=.
NotEqual(lhs, rhs) == ~Equal(lhs, rhs)

\* operator>.
Greater(lhs, rhs) == Less(rhs, lhs)

\* operator<=.
LessEq(lhs, rhs) == ~Less(rhs, lhs)

\* operator>=.
GreaterEq(lhs, rhs) == ~Less(lhs, rhs)

\* ------------------------------------------------------------------ state
\* set: the DenseSet object under test. Every operation below is a call the
\* program makes on it; the sources and partners of its copies, moves,
\* assignments and swaps are second objects the program builds for the call.
VARIABLES set

vars == <<set>>

\* The vector's capacity in the model: an insert that would grow the object
\* past MaxLen elements is not taken.
Fits(d) == Len(d.elems) <= MaxLen

\* A second object of the program, built by the range constructor.
Temporaries == {CtorRange(input, c, al) : input \in Inputs, c \in Comparators, al \in Allocators}

Init == set = CtorDefault

\* ------------------------------------------------------------ constructors
\* Each constructor action constructs the object under test anew.
ConstructDefault == set' = CtorDefault

ConstructAlloc == \E al \in Allocators : set' = CtorAlloc(al)

ConstructComp == \E c \in Comparators, al \in Allocators : set' = CtorComp(c, al)

ConstructRange ==
  \E input \in Inputs, c \in Comparators, al \in Allocators : set' = CtorRange(input, c, al)

ConstructRangeAlloc ==
  \E input \in Inputs, al \in Allocators : set' = CtorRangeAlloc(input, al)

\* DenseSet t(other): the copy t becomes the object under test.
ConstructCopy == \E src \in Temporaries \cup {set} : set' = CtorCopy(src)

ConstructCopyAlloc ==
  \E src \in Temporaries \cup {set}, al \in Allocators : set' = CtorCopyAlloc(src, al)

\* DenseSet t(std::move(other)): the new object t becomes the object under test.
ConstructMove ==
  \E src \in Temporaries \cup {set}, keeps \in BOOLEAN : set' = CtorMove(src, keeps).set

ConstructMoveAlloc ==
  \E src \in Temporaries \cup {set}, al \in Allocators, keeps \in BOOLEAN :
    set' = CtorMoveAlloc(src, al, keeps).set

\* DenseSet t(std::move(set)): the object under test is the moved-from one.
MovedFrom == \E keeps \in BOOLEAN : set' = CtorMove(set, keeps).other

MovedFromAlloc ==
  \E al \in Allocators, keeps \in BOOLEAN : set' = CtorMoveAlloc(set, al, keeps).other

\* ------------------------------------------------------- assignment, swap
AssignCopy == \E src \in Temporaries : set' = CopyAssign(set, src)

\* set = std::move(other), and other = std::move(set) seen from the source.
AssignMove ==
  \E src \in Temporaries :
    \/ set' = MoveAssign(set, src).set
    \/ set' = MoveAssign(src, set).other

Swap == \E src \in Temporaries : set' = swap(set, src).set

\* swap(set, other) and swap(other, set) through the friend.
FriendSwap ==
  \E src \in Temporaries :
    \/ set' = friend_swap(set, src).lhs
    \/ set' = friend_swap(src, set).rhs

\* std::swap(set, other) and std::swap(other, set).
StdSwap ==
  \E src \in Temporaries, keeps \in BOOLEAN :
    \/ set' = std_swap(set, src, keeps).lhs
    \/ set' = std_swap(src, set, keeps).rhs

\* --------------------------------------------------------------- mutators
Insert ==
  \E v \in Values :
    /\ Fits(insert(set, v).set)
    /\ set' = insert(set, v).set

InsertHint ==
  \E v \in Values :
    \E hint \in 0..end(set) :
      /\ Fits(insert_hint(set, hint, v).set)
      /\ set' = insert_hint(set, hint, v).set

InsertRange ==
  \E input \in Inputs :
    /\ Fits(insert_range(set, input))
    /\ set' = insert_range(set, input)

InsertInit ==
  \E input \in Inputs :
    /\ Fits(insert_init(set, input))
    /\ set' = insert_init(set, input)

Emplace ==
  \E v \in Values :
    /\ Fits(emplace(set, v).set)
    /\ set' = emplace(set, v).set

ErasePos == \E pos \in 0..(end(set) - 1) : set' = erase_pos(set, pos).set

EraseRange ==
  \E first \in 0..end(set) :
    \E lst \in first..end(set) : set' = erase_range(set, first, lst).set

EraseKey == \E key \in Values : set' = erase_key(set, key).set

Clear == set' = clear(set)

\* ---------------------------------------------------------------- lookups
\* The const member functions: each returns its result and leaves the object.
Contains == UNCHANGED set /\ \E key \in Values : contains(set, key) \in BOOLEAN

Count == UNCHANGED set /\ \E key \in Values : count(set, key) \in {0, 1}

\* A find that removes the element it finds.
Find_Erasing == \E key \in Values : find(set, key) \in 0..end(set) /\ set' = erase_key(set, key).set

Find == UNCHANGED set /\ \E key \in Values : find(set, key) \in 0..end(set)

LowerBound == UNCHANGED set /\ \E key \in Values : lower_bound(set, key) \in 0..end(set)

UpperBound == UNCHANGED set /\ \E key \in Values : upper_bound(set, key) \in 0..end(set)

EqualRange == UNCHANGED set /\ \E key \in Values : equal_range(set, key).first \in 0..end(set)

Size == UNCHANGED set /\ size(set) \in 0..(MaxLen + MaxInput)

Empty == UNCHANGED set /\ empty(set) \in BOOLEAN

KeyComp == UNCHANGED set /\ key_comp(set) \in Comparators

GetAllocator == UNCHANGED set /\ get_allocator(set) \in Allocators

\* Iteration from begin() to end(): reads each element in turn.
Iterate ==
  /\ UNCHANGED set
  /\ \A p \in begin(set)..(end(set) - 1) : set.elems[p + 1] \in Values

\* The relational operators, with the object under test on either side.
CompareEqual ==
  \E other \in Temporaries :
    Equal(set, other) \in BOOLEAN /\ NotEqual(other, set) \in BOOLEAN /\ UNCHANGED set

CompareLess ==
  \E other \in Temporaries :
    /\ Less(set, other) \in BOOLEAN /\ Greater(set, other) \in BOOLEAN
    /\ LessEq(set, other) \in BOOLEAN /\ GreaterEq(set, other) \in BOOLEAN
    /\ UNCHANGED set

Next ==
  \/ ConstructDefault
  \/ ConstructAlloc
  \/ ConstructComp
  \/ ConstructRange
  \/ ConstructRangeAlloc
  \/ ConstructCopy
  \/ ConstructCopyAlloc
  \/ ConstructMove
  \/ ConstructMoveAlloc
  \/ MovedFrom
  \/ MovedFromAlloc
  \/ AssignCopy
  \/ AssignMove
  \/ Swap
  \/ FriendSwap
  \/ StdSwap
  \/ Insert
  \/ InsertHint
  \/ InsertRange
  \/ InsertInit
  \/ Emplace
  \/ ErasePos
  \/ EraseRange
  \/ EraseKey
  \/ Clear
  \/ Contains
  \/ Count
  \/ Find
  \/ LowerBound
  \/ UpperBound
  \/ EqualRange
  \/ Size
  \/ Empty
  \/ KeyComp
  \/ GetAllocator
  \/ Iterate
  \/ CompareEqual
  \/ CompareLess

Spec == Init /\ [][Next]_vars

\* ------------------------------------------------------------ vocabulary
\* The elements of d are strictly ascending under d's own comparator.
Ordered(d) ==
  \A k \in 1..(Len(d.elems) - 1) : Compare(d.comp_, d.elems[k], d.elems[k + 1])

\* x and y are equivalent under comparator c: neither orders before the other.
Equivalent(c, x, y) == ~Compare(c, x, y) /\ ~Compare(c, y, x)

\* The 1-based indices of the elements of d equivalent to v.
EquivalentAt(d, v) == {k \in 1..Len(d.elems) : Equivalent(d.comp_, d.elems[k], v)}

\* The number of elements of d that compare less than v.
CountLess(d, v) == Cardinality({k \in 1..Len(d.elems) : Compare(d.comp_, d.elems[k], v)})

\* e without the element at iterator p, stated element by element.
Without(e, p, r) ==
  /\ Len(r) = Len(e) - 1
  /\ \A k \in 1..Len(r) : r[k] = IF k <= p THEN e[k] ELSE e[k + 1]

\* The first iterator p of d with P(p), or end(d).
FirstPos(d, P(_)) ==
  IF \E p \in 0..(end(d) - 1) : P(p)
  THEN CHOOSE p \in 0..(end(d) - 1) : P(p) /\ \A q \in 0..(p - 1) : ~P(q)
  ELSE end(d)

\* ------------------------------------------------------------------ claims
\* C1: in every reachable state the stored elements are strictly ascending
\* under the set's own current comparator (the one key_comp() returns), so no
\* two stored elements are equivalent.
C1_StrictlyOrdered == Ordered(set)

\* insert(value) on d, when d holds no element equivalent to value, places
\* value at the index that is the number of elements less than value, returns
\* (that position, true), grows the size by one and keeps the other elements.
InsertsNew(d, v) ==
  LET r == insert(d, v)
  IN EquivalentAt(d, v) = {} =>
       /\ r.second
       /\ r.first = CountLess(d, v)
       /\ r.first = lower_bound(d, v)
       /\ size(r.set) = size(d) + 1
       /\ r.set.elems[r.first + 1] = v
       /\ Without(r.set.elems, r.first, d.elems)

\* C2: insert(value) of a value the set does not hold, for every reachable set
\* and every value.
C2_InsertNew == \A v \in Values : InsertsNew(set, v)

\* insert(v) on d, when d holds an element equivalent to v, returns (the
\* position of that element, false) and changes nothing.
InsertsExisting(d, v) ==
  LET r == insert(d, v)
  IN EquivalentAt(d, v) /= {} =>
       /\ ~r.second
       /\ r.first + 1 \in EquivalentAt(d, v)
       /\ r.set = d
       /\ insert(r.set, v).set = r.set

\* C3: insert(v) of a value the set already holds, for every reachable set and
\* every value: the existing position and false, nothing changed.
C3_InsertExisting == \A v \in Values : InsertsExisting(set, v)

\* insert(hint, v) leaves the sequence insert(v) leaves and returns insert(v).first.
HintAgrees(d, hint, v) ==
  /\ insert_hint(d, hint, v).set = insert(d, v).set
  /\ insert_hint(d, hint, v).pos = insert(d, v).first

\* C4: for every reachable set, every value and every hint in [begin(), end()],
\* insert(hint, v) has the outcome of insert(v).
C4_HintIrrelevant ==
  \A v \in Values : \A hint \in 0..end(set) : HintAgrees(set, hint, v)

\* erase(key) on d: 0 and no change when no element is equivalent to key; 1 and
\* exactly that element removed when one is.
ErasesKey(d, key) ==
  LET r == erase_key(d, key)
  IN /\ EquivalentAt(d, key) = {} => r.n = 0 /\ r.set = d
     /\ EquivalentAt(d, key) /= {} =>
          /\ r.n = 1
          /\ size(r.set) = size(d) - 1
          /\ \E k \in EquivalentAt(d, key) : Without(d.elems, k - 1, r.set.elems)
          /\ r.set.comp_ = d.comp_

\* C5: erase(key) for every reachable set and every key.
C5_EraseKey == \A key \in Values : ErasesKey(set, key)

\* erase(pos) on d removes the element at pos and returns the iterator at the
\* same index of the result: the element that followed, or end().
ErasesPos(d, pos) ==
  LET r == erase_pos(d, pos)
  IN /\ Without(d.elems, pos, r.set.elems)
     /\ r.pos = pos
     /\ pos = end(d) - 1 => r.pos = end(r.set)
     /\ pos < end(d) - 1 => r.set.elems[r.pos + 1] = d.elems[pos + 2]

\* C6: erase(pos) for every reachable set and every valid position.
C6_ErasePos == \A pos \in 0..(end(set) - 1) : ErasesPos(set, pos)

\* erase(first, last) on d removes the elements at [first, last) and returns
\* the iterator at index first of the result.
ErasesRange(d, first, lst) ==
  LET r == erase_range(d, first, lst)
  IN /\ size(r.set) = size(d) - (lst - first)
     /\ \A k \in 1..size(r.set) :
          r.set.elems[k] = IF k <= first THEN d.elems[k] ELSE d.elems[k + (lst - first)]
     /\ r.pos = first
     /\ lst = end(d) => r.pos = end(r.set)
     /\ lst < end(d) => r.set.elems[r.pos + 1] = d.elems[lst + 1]
     /\ first = lst => r.set = d

\* C7: erase(first, last) for every reachable set and every first <= last.
C7_EraseRange ==
  \A first \in 0..end(set) : \A lst \in first..end(set) : ErasesRange(set, first, lst)

\* lower_bound(key) is the first p with !comp(elems[p], key), upper_bound(key)
\* the first p with comp(key, elems[p]), each end() when there is none, and
\* lower_bound(key) <= upper_bound(key).
BoundsAreFirst(d, key) ==
  LET NotLess(p) == ~Compare(d.comp_, d.elems[p + 1], key)
      KeyLess(p) == Compare(d.comp_, key, d.elems[p + 1])
  IN /\ lower_bound(d, key) = FirstPos(d, NotLess)
     /\ upper_bound(d, key) = FirstPos(d, KeyLess)
     /\ lower_bound(d, key) <= upper_bound(d, key)

\* C8: lower_bound and upper_bound for every reachable set and every key.
C8_Bounds == \A key \in Values : BoundsAreFirst(set, key)

\* The lookups of d agree on whether k is a member.
LookupsAgree(d, k) ==
  LET lb == lower_bound(d, k)
      found == find(d, k) /= end(d)
      atEquivalent == lb /= end(d) /\ Equivalent(d.comp_, d.elems[lb + 1], k)
  IN /\ found <=> atEquivalent
     /\ found <=> contains(d, k)
     /\ found <=> count(d, k) = 1
     /\ found => find(d, k) = lb
     /\ count(d, k) \in {0, 1}

\* C9: find, lower_bound, contains and count agree on membership for every
\* reachable set and every key, and count is 0 or 1.
C9_LookupsAgree == \A k \in Values : LookupsAgree(set, k)

\* equal_range(key) is (lower_bound(key), upper_bound(key)) and holds one
\* element when key is present, none when it is absent.
EqualRangeIsOne(d, key) ==
  LET r == equal_range(d, key)
  IN /\ r.first = lower_bound(d, key)
     /\ r.second = upper_bound(d, key)
     /\ EquivalentAt(d, key) /= {} =>
          /\ r.second - r.first = 1
          /\ r.first + 1 \in EquivalentAt(d, key)
     /\ EquivalentAt(d, key) = {} => r.second = r.first

\* C10: equal_range for every reachable set and every key.
C10_EqualRange == \A key \in Values : EqualRangeIsOne(set, key)

\* The same statements on the sets whose elements are ordered by their own
\* comparator: there the searches find what they look for.
OnOrdered_InsertNew == Ordered(set) => C2_InsertNew
OnOrdered_InsertExisting == Ordered(set) => C3_InsertExisting
OnOrdered_HintIrrelevant == Ordered(set) => C4_HintIrrelevant
OnOrdered_EraseKey == Ordered(set) => C5_EraseKey
OnOrdered_Bounds == Ordered(set) => C8_Bounds
OnOrdered_EqualRange == Ordered(set) => C10_EqualRange

\* The values a sequence holds.
ValuesOf(e) == {e[k] : k \in 1..Len(e)}

\* r is d after the values of input were range-inserted: r holds the values of
\* d and of input and no others, ordered by its comparator (so each once), and
\* has grown by the number of values of input that d did not hold.
RangeInserted(d, input, r) ==
  /\ ValuesOf(r.elems) = ValuesOf(d.elems) \cup ValuesOf(input)
  /\ Ordered(r)
  /\ size(r) = size(d) + Cardinality(ValuesOf(input) \ ValuesOf(d.elems))

\* C11: for every reachable set and every input, insert(first, last) and
\* insert(initializer list) leave the distinct values of the prior contents and
\* the input, sorted by the comparator, and so does every range or
\* initializer-list constructor from an empty set.
C11_RangeInsert ==
  \A input \in Inputs :
    /\ RangeInserted(set, input, insert_range(set, input))
    /\ RangeInserted(set, input, insert_init(set, input))
    /\ RangeInserted(CtorComp(set.comp_, set.alloc), input, CtorRange(input, set.comp_, set.alloc))
    /\ RangeInserted(CtorAlloc(set.alloc), input, CtorRangeAlloc(input, set.alloc))

OnOrdered_RangeInsert == Ordered(set) => C11_RangeInsert

\* The orders in which a collection of values is inserted, and the pairs of
\* orders that hold the same values (permutations, repeats allowed).
Orders == SeqsUpTo(Values, MaxOrder)

SameValues == {p \in Orders \X Orders : ValuesOf(p[1]) = ValuesOf(p[2])}

\* C12: two empty sets with the same comparator that receive the same values
\* through insert, in any two orders and with any repeats, compare equal with
\* operator== and iterate the same sequence.
C12_OrderIrrelevant ==
  empty(set) =>
    \A p \in SameValues : \A al \in Allocators :
      LET a == insert_range(set, p[1])
          b == insert_range(CtorComp(set.comp_, al), p[2])
      IN Equal(a, b) /\ ~NotEqual(a, b) /\ a.elems = b.elems

\* An empty set with the descending comparator: three values inserted in two
\* different orders, one with a repeat, give the same sequence 3, 2, 1.
C12_Witness ==
  /\ empty(set)
  /\ set.comp_ = 1
  /\ insert_range(set, <<1, 3, 2>>).elems = <<3, 2, 1>>
  /\ insert_range(insert(set, 2).set, <<2, 1, 3>>).elems = <<3, 2, 1>>
  /\ Equal(insert_range(set, <<1, 3, 2>>), insert_range(set, <<2, 1, 3>>))

\* a, a set that was moved from, is empty and has a default-constructed
\* comparator.
MovedFromReset(a) == empty(a) /\ a.comp_ = DefaultComp

\* C13: for every reachable set a, after DenseSet b(std::move(a)), after
\* DenseSet b(std::move(a), alloc) and after b = std::move(a), a is empty and
\* a's comparator equals a default-constructed one.
C13_MovedFromReset ==
  /\ \A keeps \in BOOLEAN : MovedFromReset(CtorMove(set, keeps).other)
  /\ \A al \in Allocators : \A keeps \in BOOLEAN :
       MovedFromReset(CtorMoveAlloc(set, al, keeps).other)
  /\ \A b \in Temporaries : MovedFromReset(MoveAssign(b, set).other)

\* The parts of the statement taken one at a time, for a source whose allocator
\* is the one the new set gets: the source is then left empty by all three
\* moves, and the move constructor with an allocator resets its comparator.
MovedFromAlloc_Reset == MovedFromReset(CtorMoveAlloc(set, set.alloc, TRUE).other)
MovedFrom_Empty ==
  /\ set.alloc = DefaultAlloc => empty(CtorMove(set, TRUE).other)
  /\ \A b \in Temporaries : empty(MoveAssign(b, set).other)
MovedFrom_KeepsComparator ==
  /\ \A keeps \in BOOLEAN : CtorMove(set, keeps).other.comp_ = set.comp_
  /\ \A b \in Temporaries : MoveAssign(b, set).other.comp_ = set.comp_

\* r is the outcome of move-constructing a new set from a: the new set holds
\* the sequence a held, with the same size, and a is left empty.
MoveConstructed(a, r) ==
  /\ r.set.elems = a.elems
  /\ size(r.set) = size(a)
  /\ empty(r.other)

\* C14: for every reachable set a, DenseSet b(std::move(a)) and
\* DenseSet b(std::move(a), alloc) give b the sequence and the size a had and
\* leave a empty.
C14_MoveConstruct ==
  /\ \A keeps \in BOOLEAN : MoveConstructed(set, CtorMove(set, keeps))
  /\ \A al \in Allocators : \A keeps \in BOOLEAN :
       MoveConstructed(set, CtorMoveAlloc(set, al, keeps))

\* The same when the new set's allocator equals the source's: the vector base
\* then takes the source's buffer.
OnEqualAlloc_MoveConstruct ==
  /\ set.alloc = DefaultAlloc => \A keeps \in BOOLEAN : MoveConstructed(set, CtorMove(set, keeps))
  /\ \A keeps \in BOOLEAN : MoveConstructed(set, CtorMoveAlloc(set, set.alloc, keeps))

\* The new set holds the source's sequence whatever the allocators.
MoveConstruct_Elements ==
  \A al \in Allocators : \A keeps \in BOOLEAN :
    /\ CtorMove(set, keeps).set.elems = set.elems
    /\ CtorMoveAlloc(set, al, keeps).set.elems = set.elems

\* a2 and b2 are a and b after a swap: each holds the other's former elements
\* and comparator.
Swapped(a, b, a2, b2) ==
  /\ a2.elems = b.elems /\ a2.comp_ = b.comp_
  /\ b2.elems = a.elems /\ b2.comp_ = a.comp_

\* C15: for every reachable set a and every set b, a.swap(b) and the free call
\* swap(a, b) exchange the element sequences and the comparators, and a second
\* swap restores both sets.
C15_SwapExchanges ==
  \A b \in Temporaries :
    /\ LET r == swap(set, b)
           rr == swap(r.set, r.other)
       IN Swapped(set, b, r.set, r.other) /\ Swapped(r.set, r.other, rr.set, rr.other)
    /\ \A keeps \in BOOLEAN :
         LET r == std_swap(set, b, keeps)
             rr == std_swap(r.lhs, r.rhs, keeps)
         IN Swapped(set, b, r.lhs, r.rhs) /\ Swapped(r.lhs, r.rhs, rr.lhs, rr.rhs)

\* What the free call swap(a, b) does: the element sequences are exchanged, a
\* gets b's comparator, and b gets a default-constructed comparator.
StdSwap_DefaultComparator ==
  \A b \in Temporaries : \A keeps \in BOOLEAN :
    LET r == std_swap(set, b, keeps)
    IN /\ r.lhs.elems = b.elems /\ r.lhs.comp_ = b.comp_
       /\ r.rhs.elems = set.elems /\ r.rhs.comp_ = DefaultComp

\* The member's two statements exchange elements and comparators, and twice
\* restores both sets.
MemberSwap_Exchanges ==
  \A b \in Temporaries :
    LET r == swap(set, b)
        rr == swap(r.set, r.other)
    IN Swapped(set, b, r.set, r.other) /\ rr.set = set /\ rr.other = b

\* The sets a reachable set is compared with: the second objects, its copies
\* with every allocator and the set move-constructed from it.
Partners(d) ==
  Temporaries \cup {CtorCopyAlloc(d, al) : al \in Allocators} \cup {CtorMove(d, FALSE).set}

\* a == b is decided by the two iteration sequences alone, and a != b is its
\* negation.
EqualityIsElementwise(a, b) ==
  /\ Equal(a, b) <=> a.elems = b.elems
  /\ Equal(a, b) <=>
       /\ size(a) = size(b)
       /\ \A p \in begin(a)..(end(a) - 1) : a.elems[p + 1] = b.elems[p + 1]
  /\ NotEqual(a, b) <=> ~Equal(a, b)

\* C16: for every reachable set a and every set b, in both argument orders,
\* a == b iff the two have the same size and equal elements at every index,
\* whatever their comparators and allocators, and a != b iff !(a == b).
C16_Equality ==
  \A b \in Partners(set) : EqualityIsElementwise(set, b) /\ EqualityIsElementwise(b, set)

\* A non-empty reachable set that compares equal to a set with another
\* comparator and another allocator, and unequal to a set of the same size.
C16_Witness ==
  /\ ~empty(set)
  /\ \E b \in Partners(set) :
       b.comp_ /= set.comp_ /\ b.alloc /= set.alloc /\ Equal(set, b) /\ ~NotEqual(set, b)
  /\ \E b \in Partners(set) : size(b) = size(set) /\ ~Equal(set, b) /\ NotEqual(set, b)

\* x is lexicographically before y: at the first index k where the two differ,
\* x has ended (x is a proper prefix of y) or x[k] < y[k].
LexBefore(x, y) ==
  \E k \in 1..Len(y) :
    /\ k - 1 <= Len(x)
    /\ \A j \in 1..(k - 1) : x[j] = y[j]
    /\ k > Len(x) \/ x[k] < y[k]

\* The order operators on the pair (a, b).
OrderOperators(a, b) ==
  /\ Less(a, b) <=> LexBefore(a.elems, b.elems)
  /\ Greater(a, b) <=> Less(b, a)
  /\ LessEq(a, b) <=> ~Less(b, a)
  /\ GreaterEq(a, b) <=> ~Less(a, b)
  /\ LessEq(a, b) <=> (Less(a, b) \/ Equal(a, b))
  /\ Less(a, b) \/ Equal(a, b) \/ Greater(a, b)
  /\ ~(Less(a, b) /\ Equal(a, b))
  /\ ~(Less(a, b) /\ Greater(a, b))
  /\ ~(Equal(a, b) /\ Greater(a, b))

\* C17: for every reachable set a and every set b, in both argument orders,
\* a < b is the lexicographic comparison of the two sequences (a proper prefix
\* is less), >, <= and >= derive from <, a <= b iff a < b or a == b, and
\* exactly one of a < b, a == b, a > b holds.
C17_Ordering ==
  \A b \in Partners(set) : OrderOperators(set, b) /\ OrderOperators(b, set)

\* A reachable set of two elements or more that is greater than a proper
\* prefix of it, less than a set that differs at the second element, and
\* neither less nor greater than an equal one.
C17_Witness ==
  /\ size(set) >= 2
  /\ \E b \in Partners(set) :
       /\ b.elems = SubSeq(set.elems, 1, 1)
       /\ Less(b, set) /\ Greater(set, b) /\ ~LessEq(set, b) /\ GreaterEq(set, b)
  /\ \E b \in Partners(set) :
       /\ size(b) >= 2 /\ b.elems[1] = set.elems[1] /\ set.elems[2] < b.elems[2]
       /\ Less(set, b) /\ LessEq(set, b) /\ ~Greater(set, b) /\ ~GreaterEq(set, b)
  /\ \E b \in Partners(set) :
       Equal(set, b) /\ ~Less(set, b) /\ ~Greater(set, b) /\ LessEq(set, b) /\ GreaterEq(set, b)

\* size() is the number of stored elements and the distance from begin() to
\* end(); empty() iff size() == 0 iff begin() == end().
SizeCounts(d) ==
  /\ size(d) = Cardinality(DOMAIN d.elems)
  /\ size(d) = end(d) - begin(d)
  /\ empty(d) <=> size(d) = 0
  /\ empty(d) <=> begin(d) = end(d)

\* How each mutator of d changes size(): by one on an insert that reports true
\* and not at all on one that reports false, by the reported count on
\* erase(key), by one on erase(pos), by the range length on erase(first, last),
\* to zero on clear().
SizeChanges(d) ==
  /\ \A v \in Values :
       /\ size(insert(d, v).set) = size(d) + (IF insert(d, v).second THEN 1 ELSE 0)
       /\ size(emplace(d, v).set) = size(d) + (IF emplace(d, v).second THEN 1 ELSE 0)
       /\ \A hint \in begin(d)..end(d) : size(insert_hint(d, hint, v).set) - size(d) \in {0, 1}
       /\ erase_key(d, v).n \in {0, 1}
       /\ size(erase_key(d, v).set) = size(d) - erase_key(d, v).n
  /\ \A pos \in begin(d)..(end(d) - 1) : size(erase_pos(d, pos).set) = size(d) - 1
  /\ \A first \in begin(d)..end(d) : \A lst \in first..end(d) :
       size(erase_range(d, first, lst).set) = size(d) - (lst - first)
  /\ size(clear(d)) = 0 /\ empty(clear(d))

\* C18: in every reachable state size() is the number of stored elements,
\* empty() iff size() == 0 iff begin() == end(), and every mutator changes
\* size() by what it reports.
C18_Size ==
  /\ SizeCounts(set)
  /\ SizeChanges(set)
  /\ \A v \in Values : SizeCounts(insert(set, v).set) /\ SizeCounts(erase_key(set, v).set)
  /\ SizeCounts(clear(set))

\* A reachable set of two elements: an insert that reports true makes it three,
\* one that reports false leaves it, an erase that finds its key makes it one,
\* one that does not leaves it, and clear() makes it empty.
C18_Witness ==
  /\ size(set) = 2
  /\ ~empty(set)
  /\ \E v \in Values : insert(set, v).second /\ size(insert(set, v).set) = 3
  /\ \E v \in Values : ~insert(set, v).second /\ size(insert(set, v).set) = 2
  /\ \E v \in Values : erase_key(set, v).n = 1 /\ size(erase_key(set, v).set) = 1
  /\ \E v \in Values : erase_key(set, v).n = 0 /\ size(erase_key(set, v).set) = 2
  /\ size(clear(set)) = 0

\* r, the set d after a call, has the comparator and the allocator d had.
Retains(d, r) == key_comp(r) = key_comp(d) /\ get_allocator(r) = get_allocator(d)

\* C19: for every reachable set, no insert (plain, hinted, range, initializer
\* list), emplace, erase (by key, position, range) or clear changes what
\* key_comp() and get_allocator() return, and clear() leaves the set empty.
C19_Frame ==
  /\ \A v \in Values :
       /\ Retains(set, insert(set, v).set)
       /\ Retains(set, emplace(set, v).set)
       /\ Retains(set, erase_key(set, v).set)
       /\ \A hint \in begin(set)..end(set) : Retains(set, insert_hint(set, hint, v).set)
  /\ \A input \in Inputs :
       Retains(set, insert_range(set, input)) /\ Retains(set, insert_init(set, input))
  /\ \A pos \in begin(set)..(end(set) - 1) : Retains(set, erase_pos(set, pos).set)
  /\ \A first \in begin(set)..end(set) : \A lst \in first..end(set) :
       Retains(set, erase_range(set, first, lst).set)
  /\ Retains(set, clear(set)) /\ empty(clear(set))

\* A non-empty reachable set with a comparator and an allocator that are not
\* the default ones, which clear() empties and leaves with both.
C19_Witness ==
  /\ ~empty(set)
  /\ key_comp(set) /= DefaultComp
  /\ get_allocator(set) /= DefaultAlloc
  /\ clear(set) = [elems |-> <<>>, comp_ |-> key_comp(set), alloc |-> get_allocator(set)]
  /\ \E v \in Values : insert(set, v).second /\ Retains(set, insert(set, v).set)

\* dst is a copy of src: the same element sequence and an equal comparator, so
\* that each later call does to dst what it would do to src.
CopyOf(src, dst) ==
  /\ dst.elems = src.elems
  /\ size(dst) = size(src)
  /\ key_comp(dst) = key_comp(src)
  /\ Equal(dst, src)
  /\ \A v \in Values :
       /\ insert(dst, v).set.elems = insert(src, v).set.elems
       /\ erase_key(dst, v).set.elems = erase_key(src, v).set.elems

\* C20: for every reachable set, copy construction from it, copy construction
\* with an allocator and copy assignment from it and to it give the
\* destination the source's sequence and comparator; the copy constructor
\* takes the source's allocator and the copy-with-allocator constructor the
\* supplied one.
C20_Copy ==
  /\ CopyOf(set, CtorCopy(set))
  /\ get_allocator(CtorCopy(set)) = get_allocator(set)
  /\ \A al \in Allocators :
       CopyOf(set, CtorCopyAlloc(set, al)) /\ get_allocator(CtorCopyAlloc(set, al)) = al
  /\ \A other \in Temporaries :
       CopyOf(set, CopyAssign(other, set)) /\ CopyOf(other, CopyAssign(set, other))

\* A non-empty reachable set with a comparator and an allocator that are not
\* the default ones: its copy under allocator 0 has that allocator, and a set
\* with other elements and the default comparator that is assigned from it has
\* its elements and its comparator.
C20_Witness ==
  /\ ~empty(set)
  /\ key_comp(set) /= DefaultComp
  /\ get_allocator(set) /= DefaultAlloc
  /\ CtorCopy(set) = set
  /\ CtorCopyAlloc(set, DefaultAlloc) = [set EXCEPT !.alloc = DefaultAlloc]
  /\ \E other \in Temporaries :
       /\ other.elems /= set.elems /\ key_comp(other) = DefaultComp
       /\ CopyAssign(other, set).elems = set.elems
       /\ key_comp(CopyAssign(other, set)) = key_comp(set)

\* d is an empty set with comparator c and allocator al.
EmptyWith(d, c, al) ==
  /\ size(d) = 0 /\ empty(d) /\ begin(d) = end(d)
  /\ key_comp(d) = c
  /\ get_allocator(d) = al

\* d has comparator c and allocator al and holds input, inserted into an
\* empty set: its values, each once, in the order of c.
FilledWith(d, input, c, al) ==
  /\ key_comp(d) = c
  /\ get_allocator(d) = al
  /\ ValuesOf(d.elems) = ValuesOf(input)
  /\ size(d) = Cardinality(ValuesOf(input))
  /\ \A k \in 1..(size(d) - 1) : Compare(c, d.elems[k], d.elems[k + 1])

\* C21: every constructor form stores the comparator and the allocator it is
\* given and a default-constructed one for each it is not given; the default,
\* comparator, allocator and comparator+allocator forms give an empty set, the
\* iterator-pair and initializer-list forms a set with the input inserted. The
\* comparator and the allocator given are those of a reachable set, which are
\* all of them.
C21_Constructors ==
  LET c == key_comp(set)
      al == get_allocator(set)
  IN /\ EmptyWith(CtorDefault, DefaultComp, DefaultAlloc)
     /\ EmptyWith(CtorComp(c, DefaultAlloc), c, DefaultAlloc)
     /\ EmptyWith(CtorAlloc(al), DefaultComp, al)
     /\ EmptyWith(CtorComp(c, al), c, al)
     /\ \A input \in Inputs :
          /\ FilledWith(CtorRange(input, DefaultComp, DefaultAlloc), input, DefaultComp, DefaultAlloc)
          /\ FilledWith(CtorRange(input, c, DefaultAlloc), input, c, DefaultAlloc)
          /\ FilledWith(CtorRangeAlloc(input, al), input, DefaultComp, al)
          /\ FilledWith(CtorRange(input, c, al), input, c, al)

\* The object under test as the range constructor built it from the input
\* 1, 2 with the descending comparator and allocator 1: it holds 2, 1.
C21_Witness ==
  /\ set = CtorRange(<<1, 2>>, 1, 1)
  /\ set.elems = <<2, 1>>
  /\ key_comp(set) = 1
  /\ get_allocator(set) = 1

\* A step of one of the operations that only read the set.
Lookups ==
  \/ Contains \/ Count \/ Find \/ LowerBound \/ UpperBound \/ EqualRange
  \/ Size \/ Empty \/ KeyComp \/ GetAllocator \/ Iterate

\* What the reading operations return on d, for every key.
LookupResults(d) ==
  [key \in Values |->
     <<contains(d, key), count(d, key), find(d, key), lower_bound(d, key),
       upper_bound(d, key), equal_range(d, key), size(d), empty(d)>>]

\* C22: a step of contains, count, find, lower_bound, upper_bound, equal_range,
\* size, empty, key_comp, get_allocator or iteration leaves the element
\* sequence, the size, the comparator and the allocator as they were, so every
\* lookup after it returns what it returned before it.
C22_LookupsPure ==
  [][Lookups =>
       /\ set'.elems = set.elems
       /\ size(set') = size(set)
       /\ key_comp(set') = key_comp(set)
       /\ get_allocator(set') = get_allocator(set)
       /\ LookupResults(set') = LookupResults(set)]_vars

\* A reachable ordered set of three elements on which the lookups answer: the
\* middle element is found at index 1, a key is missing, and the equal range of
\* the middle element is [1, 2).
C22_Witness ==
  /\ size(set) = 3
  /\ Ordered(set)
  /\ contains(set, set.elems[2]) /\ count(set, set.elems[2]) = 1
  /\ find(set, set.elems[2]) = 1
  /\ lower_bound(set, set.elems[2]) = 1 /\ upper_bound(set, set.elems[2]) = 2
  /\ equal_range(set, set.elems[2]) = [first |-> 1, second |-> 2]
  /\ ENABLED Find

\* C23: for every reachable set a, DenseSet b(std::move(a)) gives b a
\* default-constructed allocator and leaves a its own, so the two differ when
\* a's is not the default, and DenseSet b(std::move(a), alloc) gives b the
\* allocator alloc and leaves a its own.
C23_MoveAllocator ==
  \A keeps \in BOOLEAN :
    /\ get_allocator(CtorMove(set, keeps).set) = DefaultAlloc
    /\ get_allocator(CtorMove(set, keeps).other) = get_allocator(set)
    /\ get_allocator(set) /= DefaultAlloc =>
         get_allocator(CtorMove(set, keeps).set) /= get_allocator(CtorMove(set, keeps).other)
    /\ \A al \in Allocators :
         /\ get_allocator(CtorMoveAlloc(set, al, keeps).set) = al
         /\ get_allocator(CtorMoveAlloc(set, al, keeps).other) = get_allocator(set)

\* A non-empty reachable set with allocator 1: the set move-constructed from
\* it has allocator 0, and the one move-constructed with allocator 1 has 1.
C23_Witness ==
  /\ ~empty(set)
  /\ get_allocator(set) = 1
  /\ get_allocator(CtorMove(set, FALSE).set) = 0
  /\ get_allocator(CtorMove(set, FALSE).other) = 1
  /\ get_allocator(CtorMoveAlloc(set, 1, FALSE).set) = 1
  /\ CtorMove(set, FALSE).set.elems = set.elems

\* dst received the set a by a move that left src behind: dst has the
\* comparator a had, its elements are ordered by it when a's were, and the
\* comparators of src and dst differ when a's was not the default.
ComparatorMoved(a, dst, src) ==
  /\ key_comp(dst) = key_comp(a)
  /\ Ordered(a) => Ordered(dst)
  /\ key_comp(a) /= DefaultComp => key_comp(src) /= key_comp(dst)

\* C24: for every reachable set a, after DenseSet b(std::move(a)), after
\* DenseSet b(std::move(a), alloc) and after b = std::move(a), b's comparator
\* is the one a had, b's elements are ordered by it, and the comparators of a
\* and b differ when a's was not the default.
C24_MoveComparator ==
  /\ \A keeps \in BOOLEAN :
       ComparatorMoved(set, CtorMove(set, keeps).set, CtorMove(set, keeps).other)
  /\ \A al \in Allocators : \A keeps \in BOOLEAN :
       ComparatorMoved(set, CtorMoveAlloc(set, al, keeps).set, CtorMoveAlloc(set, al, keeps).other)
  /\ \A b \in Temporaries :
       ComparatorMoved(set, MoveAssign(b, set).set, MoveAssign(b, set).other)

\* The move constructor with an allocator does all of it.
MoveAlloc_ComparatorMoved ==
  \A al \in Allocators : \A keeps \in BOOLEAN :
    ComparatorMoved(set, CtorMoveAlloc(set, al, keeps).set, CtorMoveAlloc(set, al, keeps).other)

\* The move constructor gives the new set a default-constructed comparator, and
\* move assignment gives the destination the source's comparator.
Move_DefaultComparator ==
  /\ \A keeps \in BOOLEAN : key_comp(CtorMove(set, keeps).set) = DefaultComp
  /\ \A b \in Temporaries :
       /\ key_comp(MoveAssign(b, set).set) = key_comp(set)
       /\ Ordered(set) => Ordered(MoveAssign(b, set).set)

\* A reachable set of three ordered elements whose middle element erase(pos)
\* removes, returning the position of the third.
C6_Witness ==
  /\ size(set) = 3
  /\ Ordered(set)
  /\ erase_pos(set, 1).set.elems = <<set.elems[1], set.elems[3]>>
  /\ erase_pos(set, 1).pos = 1

\* A reachable set of three elements from which erase(begin(), begin() + 2)
\* removes two and leaves the third at the returned position.
C7_Witness ==
  /\ size(set) = 3
  /\ erase_range(set, 0, 2).set.elems = <<set.elems[3]>>
  /\ erase_range(set, 0, 2).pos = 0

\* A reachable set that is not ordered by its own comparator, with a key the
\* lookups find and a member the lookups miss, all of them agreeing.
C9_Witness ==
  /\ ~Ordered(set)
  /\ \E k \in Values : find(set, k) /= end(set) /\ contains(set, k) /\ count(set, k) = 1
  /\ \E k \in Values :
       /\ \E i \in 1..size(set) : set.elems[i] = k
       /\ find(set, k) = end(set) /\ ~contains(set, k) /\ count(set, k) = 0

====
